---- MODULE Spec2Model ----
(***************************************************************************)
(* Model of mame_to_batocera.py: the MameToBatocera converter.             *)
(*                                                                         *)
(* Conventions.  A Python str is a sequence of tokens (a year is a         *)
(* sequence of one-character tokens, so that isdigit/len/re.match can be   *)
(* computed).  An Optional value is a sequence of length 0 (None) or 1     *)
(* (Some(v)).  A dict is a function over its key set.  An ElementTree      *)
(* element is the sequence of its children, each a [tag, text] record.     *)
(***************************************************************************)
EXTENDS Integers, Sequences, FiniteSets, TLC

\* ------------------------------------------------------------------ bounds
NumIds == 2
MaxExisting == 2
MaxRuns == 2
MaxYearLen == 4
MaxZips == 3

\* ------------------------------------------------------- basic encodings
None == <<>>
Some(v) == <<v>>
IsNone(o) == Len(o) = 0
Val(o) == o[1]

IdNames == <<"a", "b", "c", "d">>
Ids == {IdNames[i] : i \in 1..NumIds}
Rank(id) == CHOOSE i \in 1..Len(IdNames) : IdNames[i] = id

RECURSIVE SortedKeys(_)
\* sorted(d.keys()) for a set of rom names
SortedKeys(S) ==
    IF S = {} THEN <<>>
    ELSE LET m == CHOOSE x \in S : \A y \in S : Rank(x) <= Rank(y)
         IN <<m>> \o SortedKeys(S \ {m})

Range(s) == {s[i] : i \in 1..Len(s)}

\* dict.update(u)
Update(d, u) ==
    [k \in (DOMAIN d) \cup (DOMAIN u) |-> IF k \in DOMAIN u THEN u[k] ELSE d[k]]

Restrict(d, K) == [k \in K |-> d[k]]

EmptyDict == [k \in {} |-> None]

\* ------------------------------------------------------ parse_dat_xml
BoolKeys == {"isbios", "ismechanical", "isdevice"}

\* Python truthiness of the value stored under key k of a game_data dict:
\* the three flags are bools, every other value is a str.
Truthy(k, v) == IF k \in BoolKeys THEN v = TRUE ELSE v # <<>>

\* elem.findtext(child, ''): the child's text, '' when the child or its text
\* is missing
FindText(o) == IF IsNone(o) THEN <<>> ELSE Val(o)

\* the dict built for one <machine>/<game> element (lines 96-117)
GameData(e) ==
    LET base == [k \in {"name", "description", "year", "manufacturer",
                        "isbios", "ismechanical", "isdevice"} |->
                   CASE k = "name" -> <<Val(e.name)>>
                     [] k = "description" -> FindText(e.description)
                     [] k = "year" -> FindText(e.year)
                     [] k = "manufacturer" -> FindText(e.manufacturer)
                     [] k = "isbios" -> (e.isbios = Some(<<"yes">>))
                     [] k = "ismechanical" -> (e.ismechanical = Some(<<"yes">>))
                     [] k = "isdevice" -> (e.isdevice = Some(<<"yes">>))]
        hasPlayers == /\ ~IsNone(e.input)
                      /\ ~IsNone(Val(e.input))
                      /\ Val(Val(e.input)) # <<>>
        withPlayers == IF hasPlayers
                       THEN Update(base, [k \in {"players"} |-> Val(Val(e.input))])
                       ELSE base
        drv == IF IsNone(e.driver) THEN EmptyDict
               ELSE [k \in {"driver_status", "driver_emulation"} |->
                       IF k = "driver_status" THEN FindText(Val(e.driver).status)
                       ELSE FindText(Val(e.driver).emulation)]
    IN Update(withPlayers, drv)

RECURSIVE ParseElems(_, _, _)
\* the loop of lines 85-120 over the elements found under the root
ParseElems(elems, tag, games) ==
    IF elems = <<>> THEN games
    ELSE LET e == Head(elems)
             skip == e.tag # tag \/ IsNone(e.name) \/ e.name = Some("")
         IN ParseElems(Tail(elems), tag,
                IF skip THEN games
                ELSE Update(games, [k \in {Val(e.name)} |-> GameData(e)]))

\* parse_dat_xml: a document that does not parse yields {}
parse_dat_xml(doc) ==
    IF ~doc.wellformed THEN EmptyDict
    ELSE ParseElems(doc.children,
                    IF doc.root = "datafile" THEN "machine" ELSE "game",
                    EmptyDict)

\* ------------------------------------------------------ merge_metadata
\* line 379: merged[rom_name].update({k: v for k, v in data.items() if v})
ChdUpdate(m, data) ==
    Update(m, Restrict(data, {k \in DOMAIN data : Truthy(k, data[k])}))

\* artwork applied like CHD data: every truthy value overwrites
ArtworkUpdateOverwrites(m, data) ==
    Update(m, Restrict(data, {k \in DOMAIN data : Truthy(k, data[k])}))

\* line 387: update({k: v ... if v and k not in merged[rom_name]})
ArtworkUpdate(m, data) ==
    Update(m, Restrict(data, {k \in DOMAIN data :
                                Truthy(k, data[k]) /\ k \notin DOMAIN m}))

\* lines 370-379: ROM games, then CHD games
MergeRomChd(rom_games, chd_games) ==
    [n \in (DOMAIN rom_games) \cup (DOMAIN chd_games) |->
        IF n \notin DOMAIN rom_games THEN chd_games[n]
        ELSE IF n \notin DOMAIN chd_games THEN rom_games[n]
        ELSE ChdUpdate(rom_games[n], chd_games[n])]

merge_metadata(rom_games, chd_games, artwork_games) ==
    LET m == MergeRomChd(rom_games, chd_games)
    IN [n \in (DOMAIN m) \cup (DOMAIN artwork_games) |->
          IF n \notin DOMAIN m THEN artwork_games[n]
          ELSE IF n \notin DOMAIN artwork_games THEN m[n]
          ELSE ArtworkUpdate(m[n], artwork_games[n])]


\* ------------------------------------------------- ElementTree helpers
Child(tag, text) == [tag |-> tag, text |-> text]

RECURSIVE Find(_, _)
\* elem.find(tag): the first child with that tag, or None
Find(elem, tag) ==
    IF elem = <<>> THEN None
    ELSE IF Head(elem).tag = tag THEN Some(Head(elem))
    ELSE Find(Tail(elem), tag)

Tags(elem) == {elem[i].tag : i \in 1..Len(elem)}

\* ET.tostring followed by ET.parse: an element whose text is '' is written
\* as <tag /> exactly like one whose text is None, and reads back as None
SerializeElem(elem) ==
    [i \in 1..Len(elem) |->
        IF elem[i].text = Some(<<>>) THEN Child(elem[i].tag, None) ELSE elem[i]]

Serialize(root) == [i \in 1..Len(root) |-> SerializeElem(root[i])]

NoFile == [kind |-> "none", games |-> <<>>]
MalformedFile == [kind |-> "malformed", games |-> <<>>]
XmlFile(games) == [kind |-> "xml", games |-> games]

\* Path(path_text).stem on a tokenised path: directory tokens are dropped,
\* then the final suffix token
DirTokens == {"./", "./roms/"}
Stem(p) ==
    LET q == SelectSeq(p, LAMBDA t : t \notin DirTokens)
    IN IF q = <<>> THEN "" ELSE q[1]

\* an insertion-ordered dict as a sequence of [key, val] entries
DictKeys(d) == {d[i].key : i \in 1..Len(d)}
DictGet(d, k) ==
    IF k \in DictKeys(d)
    THEN Some(d[CHOOSE i \in 1..Len(d) : d[i].key = k].val)
    ELSE None
DictSet(d, k, v) ==
    IF k \in DictKeys(d)
    THEN [i \in 1..Len(d) |-> IF d[i].key = k THEN [key |-> k, val |-> v] ELSE d[i]]
    ELSE Append(d, [key |-> k, val |-> v])

\* ------------------------------------------- load_existing_gamelist
RECURSIVE LoadGames(_, _)
\* lines 243-249
LoadGames(games, existing_games) ==
    IF games = <<>> THEN existing_games
    ELSE LET game_elem == Head(games)
             path_elem == Find(game_elem, "path")
             keep == /\ ~IsNone(path_elem)
                     /\ ~IsNone(Val(path_elem).text)
                     /\ Val(Val(path_elem).text) # <<>>
         IN LoadGames(Tail(games),
                IF keep
                THEN DictSet(existing_games, Stem(Val(Val(path_elem).text)), game_elem)
                ELSE existing_games)

load_existing_gamelist(file, nomerge) ==
    IF file.kind = "none" \/ nomerge THEN <<>>
    ELSE IF file.kind = "malformed" THEN <<>>
    ELSE LoadGames(file.games, <<>>)

\* ------------------------------------------- create_gamelist_entry
Digits == {"0", "1", "2", "3", "4", "5", "6", "7", "8", "9"}
DateSuffix == <<"0101T000000">>

\* str.isdigit()
IsDigit(s) == s # <<>> /\ \A i \in 1..Len(s) : s[i] \in Digits

\* re.match(r'(\d{4})', year): group(1), or None
Match4(year) ==
    IF Len(year) >= 4 /\ \A i \in 1..4 : year[i] \in Digits
    THEN Some(SubSeq(year, 1, 4))
    ELSE None

\* lines 319-328: the derived releasedate text
ReleaseDate(mame_data) ==
    IF "year" \in DOMAIN mame_data /\ mame_data["year"] # <<>>
    THEN LET year == mame_data["year"]
         IN IF IsDigit(year) /\ Len(year) = 4
            THEN Some(year \o DateSuffix)
            ELSE IF ~IsNone(Match4(year))
                 THEN Some(Val(Match4(year)) \o DateSuffix)
                 ELSE None
    ELSE None

\* mame_data.get(key, default)
Get(mame_data, key, default) ==
    IF key \in DOMAIN mame_data THEN mame_data[key] ELSE default

\* "existing if available, else derived": the pattern of lines 265-356
ExistingOr(existing_game, tag, derived) ==
    IF ~IsNone(existing_game) /\ ~IsNone(Find(Val(existing_game), tag))
    THEN Val(Find(Val(existing_game), tag)).text
    ELSE derived

\* the status list of line 359 without 'imperfect'
HiddenPreliminaryOnly(mame_data) ==
    IF "driver_status" \in DOMAIN mame_data
       /\ mame_data["driver_status"] = <<"preliminary">>
    THEN <<Child("hidden", Some(<<"true">>))>>
    ELSE <<>>

\* lines 358-361
HiddenChildren(mame_data) ==
    IF "driver_status" \in DOMAIN mame_data
       /\ mame_data["driver_status"] \in {<<"preliminary">>, <<"imperfect">>}
    THEN <<Child("hidden", Some(<<"true">>))>>
    ELSE <<>>

ScreenshotRef(rom_name) == <<"./media/screenshots/", rom_name, ".png">>
MarqueeRef(rom_name) == <<"./media/marquees/", rom_name, ".png">>

create_gamelist_entry(rom_name, mame_data, snaps, flyers, marquees, existing_game) ==
    LET E(tag, derived) == Child(tag, ExistingOr(existing_game, tag, derived))
    IN << E("path", Some(<<"./", rom_name, ".zip">>)),
          E("name", Some(Get(mame_data, "description", <<rom_name>>))),
          E("desc", Some(Get(mame_data, "description", <<>>))),
          E("image", IF rom_name \in DOMAIN snaps
                     THEN Some(ScreenshotRef(rom_name)) ELSE None),
          E("thumbnail", IF rom_name \in DOMAIN snaps
                         THEN Some(ScreenshotRef(rom_name)) ELSE None),
          E("marquee", IF rom_name \in DOMAIN marquees
                       THEN Some(MarqueeRef(rom_name)) ELSE None),
          E("video", None),
          E("rating", None),
          E("releasedate", ReleaseDate(mame_data)),
          E("developer", Some(Get(mame_data, "manufacturer", <<>>))),
          E("publisher", Some(Get(mame_data, "manufacturer", <<>>))),
          E("genre", Some(<<"Arcade">>)),
          E("players", IF "players" \in DOMAIN mame_data
                       THEN Some(mame_data["players"]) ELSE None) >>
       \o HiddenChildren(mame_data)

\* ----------------------------------------------- generate_gamelist
\* lines 400-409: one entry per merged game, in sorted order
ProcessedEntries(merged, snaps, flyers, marquees, existing_games) ==
    LET keys == SortedKeys(DOMAIN merged)
    IN [i \in 1..Len(keys) |->
          create_gamelist_entry(keys[i], merged[keys[i]], snaps, flyers, marquees,
                                DictGet(existing_games, keys[i]))]

\* the membership test of line 414 inverted
OrphansInverted(existing_games, processed, nomerge) ==
    IF nomerge THEN <<>>
    ELSE LET rest == SelectSeq(existing_games, LAMBDA e : e.key \in processed)
         IN [i \in 1..Len(rest) |-> rest[i].val]

\* the membership test of line 414 left out
OrphansUnfiltered(existing_games, processed, nomerge) ==
    IF nomerge THEN <<>>
    ELSE [i \in 1..Len(existing_games) |-> existing_games[i].val]

\* lines 412-416: existing games that were not processed, in dict order
Orphans(existing_games, processed, nomerge) ==
    IF nomerge THEN <<>>
    ELSE LET rest == SelectSeq(existing_games, LAMBDA e : e.key \notin processed)
         IN [i \in 1..Len(rest) |-> rest[i].val]

GamelistRoot(merged, snaps, flyers, marquees, file, nomerge) ==
    LET existing_games == load_existing_gamelist(file, nomerge)
    IN ProcessedEntries(merged, snaps, flyers, marquees, existing_games)
       \o Orphans(existing_games, DOMAIN merged, nomerge)


\* ------------------------------------------------ media archive indexing
\* A png entry of a media archive is a tokenised filename: <<base, ".png">>
\* for snap.zip and flyers.zip, <<base, "_flyer" | "_marquee" | "_bezel",
\* ".png">> for artwork.zip.  Path(filename).stem drops the final suffix.
PngEntries(zip) == {f \in zip.entries : f[Len(f)] = ".png"}

\* lines 147-149: direct mapping, base name -> entry filename
DirectMap(zip) ==
    IF zip.fault = "index" THEN EmptyDict
    ELSE [n \in {f[1] : f \in PngEntries(zip)} |->
            CHOOSE f \in PngEntries(zip) : f[1] = n]

\* lines 138-146: the artwork index; keys are tokenised too: <<base>> for a
\* flyer, <<base, "_marquee">> for a marquee
ArtworkMap(zip) ==
    IF zip.fault = "index" THEN EmptyDict
    ELSE LET fl == {f \in PngEntries(zip) : "_flyer" \in Range(f)}
             mq == {f \in PngEntries(zip) :
                      "_flyer" \notin Range(f) /\ "_marquee" \in Range(f)}
         IN [k \in {<<f[1]>> : f \in fl} \cup {<<f[1], "_marquee">> : f \in mq} |->
               IF Len(k) = 1
               THEN CHOOSE f \in fl : f[1] = k[1]
               ELSE CHOOSE f \in mq : f[1] = k[1]]

\* --------------------------------------------------------------- inputs
Elem(tag, name, description, year, manufacturer, isbios, input, driver) ==
    [tag |-> tag, name |-> name, description |-> description, year |-> year,
     manufacturer |-> manufacturer, isbios |-> isbios, ismechanical |-> None,
     isdevice |-> None, input |-> input, driver |-> driver]

Driver(status) == Some([status |-> status, emulation |-> Some(<<"good">>)])

FullElem(tag, n) ==
    Elem(tag, Some(n), Some(<<"Pac-Man">>), Some(<<"1", "9", "8", "5">>),
         Some(<<"Namco">>), None, Some(Some(<<"2">>)), Driver(Some(<<"good">>)))

PartialElem(tag, n) ==
    Elem(tag, Some(n), None, Some(<<"1", "9", "8", "?">>), None,
         Some(<<"no">>), Some(None), Driver(Some(<<"preliminary">>)))

ChdElem(tag, n) ==
    Elem(tag, Some(n), Some(<<"Pac-Man (CHD)">>), None, Some(<<"Midway">>),
         Some(<<"yes">>), None, Driver(Some(<<"imperfect">>)))

ArtElem(tag, n) ==
    Elem(tag, Some(n), Some(<<"Pac-Man (art)">>), Some(<<"2", "0", "0", "?">>),
         None, None, Some(Some(<<"4">>)), None)

NamelessElem(tag) ==
    Elem(tag, None, Some(<<"nameless">>), None, None, None, None, None)

Doc(root, children) == [wellformed |-> TRUE, root |-> root, children |-> children]
MalformedDoc == [wellformed |-> FALSE, root |-> "", children |-> <<>>]

\* the documents a ROM archive may hold: every subset of the identifiers,
\* described fully or partially
RomDocOf(S, swap) ==
    LET keys == SortedKeys(S)
    IN Doc("datafile",
           [i \in 1..Len(keys) |->
               IF (Rank(keys[i]) % 2 = 1) = swap
               THEN PartialElem("machine", keys[i])
               ELSE FullElem("machine", keys[i])]
           \o <<NamelessElem("machine")>>)

RomDocs ==
    {RomDocOf(S, swap) : S \in SUBSET Ids, swap \in BOOLEAN}
    \cup {MalformedDoc,
          Doc("mame", <<FullElem("game", "a"), PartialElem("machine", "b")>>)}

ChdDoc == Doc("datafile", <<ChdElem("machine", "a")>>)
ArtDoc == Doc("datafile", <<ArtElem("machine", "a"), ArtElem("machine", "b")>>)

\* a catalog archive: the substrings its lower-cased file name contains and
\* the .xml members it lists
Zip(name, xml_files) == [name |-> name, xml_files |-> xml_files]

ZipListings ==
    {<<>>,
     <<Zip({"chd"}, <<ChdDoc>>)>>,
     <<Zip({"rom"}, <<>>), Zip({"chd"}, <<ChdDoc>>)>>}
    \cup {<<Zip({"rom"}, <<d>>)>> : d \in RomDocs}
    \cup {<<Zip({"chd"}, <<ChdDoc>>), Zip({}, <<ArtDoc>>),
            Zip({"rom", "chd"}, <<RomDocOf(S, FALSE), ArtDoc>>),
            Zip({"artwork"}, <<ArtDoc>>)>> : S \in SUBSET Ids}

\* a media archive: its entries, the step at which processing it raises
\* ("none", "index": while listing it, "extract": while extracting or copying
\* a member) and the base names copied before an "extract" exception
FaultyZip(entries, fault, done) == [entries |-> entries, fault |-> fault, done |-> done]

MediaZip(entries) == FaultyZip(entries, "none", {})

\* the extras directory: snap.zip, flyers.zip, artwork.zip, each optional
ExtrasDirs ==
    {[snap |-> None, flyers |-> None, artwork |-> None],
     [snap |-> Some(MediaZip({<<"a", ".png">>, <<"b", ".txt">>})),
      flyers |-> Some(MediaZip({<<"a", ".png">>})),
      artwork |-> Some(MediaZip({<<"a", "_marquee", ".png">>,
                                 <<"b", "_flyer", ".png">>,
                                 <<"b", "_bezel", ".png">>}))]}

\* records a user may have in gamelist.xml before the run
EditedGame(path) ==
    <<Child("path", Some(path)), Child("name", Some(<<"My Name">>)),
      Child("image", None), Child("rating", Some(<<"0.9">>)),
      Child("hidden", Some(<<"true">>)), Child("favorite", Some(<<"true">>))>>

PlainGame(path) ==
    <<Child("name", Some(<<"Other">>)), Child("path", Some(path)),
      Child("releasedate", Some(<<"19800101T000000">>))>>

ExistingElems ==
    {EditedGame(<<"./", "a", ".zip">>), PlainGame(<<"./roms/", "a", ".7z">>),
     EditedGame(<<"./", "z", ".zip">>), PlainGame(<<"./roms/", "z", ".7z">>),
     <<Child("name", Some(<<"no path">>))>>}

SeqsUpTo(S, n) == UNION {[1..k -> S] : k \in 0..n}

ExistingFiles ==
    {NoFile, MalformedFile} \cup {XmlFile(g) : g \in SeqsUpTo(ExistingElems, MaxExisting)}


\* ---------------------------------------------------------------- state
VARIABLES
    pc,                \* position in main()/run()
    no_merge, dry_run, \* self.no_merge, self.dry_run
    dat_zips,          \* the *.zip files the glob of lines 473-475 lists
    extras,            \* the media archives in extras_dir
    zip_idx,           \* position of the loop of line 481
    rom_dat_path, chd_dat_path, artwork_dat_path,
    rom_games, chd_games, artwork_games, merged_games,
    snap_map, flyer_map, marquee_map,
    processed_games,   \* self.processed_games
    gamelist_root,     \* the gameList element built by generate_gamelist
    dirs,              \* directories this program may create, when they exist
    temp_files,        \* files in the scratch directory
    media_files,       \* png files under roms_dir/media
    gamelist_file,     \* roms_dir/gamelist.xml
    fatal,             \* run() reached its except clause
    exit_status,       \* -1 while the process runs
    runs,              \* number of the current invocation
    prev_output,       \* gamelist.xml as the previous invocation left it
    prev_exit          \* exit status of the previous invocation

config == <<no_merge, dry_run, dat_zips, extras>>
locals == <<zip_idx, rom_dat_path, chd_dat_path, artwork_dat_path,
            rom_games, chd_games, artwork_games, merged_games,
            snap_map, flyer_map, marquee_map, processed_games, gamelist_root>>
fs == <<dirs, temp_files, media_files, gamelist_file>>
history == <<runs, prev_output, prev_exit>>
vars == <<pc, config, locals, fs, fatal, exit_status, history>>

MediaDirs == {"media", "screenshots", "covers", "marquees"}

FreshLocals ==
    /\ zip_idx = 1
    /\ rom_dat_path = None /\ chd_dat_path = None /\ artwork_dat_path = None
    /\ rom_games = EmptyDict /\ chd_games = EmptyDict /\ artwork_games = EmptyDict
    /\ merged_games = EmptyDict
    /\ snap_map = EmptyDict /\ flyer_map = EmptyDict /\ marquee_map = EmptyDict
    /\ processed_games = {}
    /\ gamelist_root = <<>>

Init ==
    /\ pc = "start"
    /\ no_merge \in BOOLEAN /\ dry_run \in BOOLEAN
    /\ dat_zips \in ZipListings
    /\ extras \in ExtrasDirs
    /\ FreshLocals
    /\ dirs = {} /\ temp_files = {} /\ media_files = {}
    /\ gamelist_file \in ExistingFiles
    /\ fatal = FALSE /\ exit_status = -1
    /\ runs = 1 /\ prev_output = NoFile /\ prev_exit = -1

\* __init__ (lines 20-44); extract_temp is not given, so mkdtemp makes it
Construct ==
    /\ pc = "start"
    /\ dirs' = dirs \cup {"extract_temp"} \cup MediaDirs
    /\ pc' = "locate"
    /\ UNCHANGED <<config, locals, temp_files, media_files, gamelist_file,
                   fatal, exit_status, history>>

\* lines 482-487: the category of an archive name
Category(name) ==
    IF "rom" \in name THEN "rom"
    ELSE IF "chd" \in name THEN "chd"
    ELSE IF "artwork" \in name THEN "artwork"
    ELSE "other"

\* extract_xml_from_zip: the path of the extracted document (the index of
\* its archive), None when the archive lists no .xml member
extract_xml_from_zip(i) ==
    IF dat_zips[i].xml_files = <<>> THEN None ELSE Some(i)

\* one iteration of the loop of lines 481-487
ExtractXml ==
    /\ pc = "locate"
    /\ zip_idx <= Len(dat_zips)
    /\ LET cat == Category(dat_zips[zip_idx].name)
           path == extract_xml_from_zip(zip_idx)
       IN /\ rom_dat_path' = IF cat = "rom" THEN path ELSE rom_dat_path
          /\ chd_dat_path' = IF cat = "chd" THEN path ELSE chd_dat_path
          /\ artwork_dat_path' = IF cat = "artwork" THEN path ELSE artwork_dat_path
          /\ IF cat # "other" /\ ~IsNone(path)
             THEN /\ temp_files' = temp_files \cup {zip_idx}
                  /\ dirs' = dirs \cup {"extract_temp"}
             ELSE UNCHANGED <<temp_files, dirs>>
    /\ zip_idx' = zip_idx + 1
    /\ UNCHANGED <<pc, config, rom_games, chd_games, artwork_games, merged_games,
                   snap_map, flyer_map, marquee_map, processed_games, gamelist_root,
                   media_files, gamelist_file, fatal, exit_status, history>>

\* lines 489-491: no ROM DAT, run() returns
AbortNoRom ==
    /\ pc = "locate"
    /\ zip_idx > Len(dat_zips)
    /\ IsNone(rom_dat_path)
    /\ pc' = "cleanup"
    /\ UNCHANGED <<config, locals, fs, fatal, exit_status, history>>

ParsePath(path) ==
    IF IsNone(path) THEN EmptyDict
    ELSE parse_dat_xml(dat_zips[Val(path)].xml_files[1])

\* lines 494-496
ParseDats ==
    /\ pc = "locate"
    /\ zip_idx > Len(dat_zips)
    /\ ~IsNone(rom_dat_path)
    /\ rom_games' = ParsePath(rom_dat_path)
    /\ chd_games' = ParsePath(chd_dat_path)
    /\ artwork_games' = ParsePath(artwork_dat_path)
    /\ pc' = "parsed"
    /\ UNCHANGED <<config, zip_idx, rom_dat_path, chd_dat_path, artwork_dat_path,
                   merged_games, snap_map, flyer_map, marquee_map, processed_games,
                   gamelist_root, fs, fatal, exit_status, history>>

\* line 501
MergeMetadata ==
    /\ pc = "parsed"
    /\ merged_games' = merge_metadata(rom_games, chd_games, artwork_games)
    /\ pc' = "merged"
    /\ UNCHANGED <<config, zip_idx, rom_dat_path, chd_dat_path, artwork_dat_path,
                   rom_games, chd_games, artwork_games, snap_map, flyer_map,
                   marquee_map, processed_games, gamelist_root, fs, fatal,
                   exit_status, history>>

\* _extract_media_files: the names copied into a media folder
CopiedNames(zip, media_map) ==
    IF dry_run \/ zip.fault = "index" THEN {}
    ELSE IF zip.fault = "extract" THEN DOMAIN media_map \cap zip.done
    ELSE DOMAIN media_map

\* _extract_artwork_media: the marquees copied, which alone enter marquee_map
CopiedMarquees(zip, artwork_map) ==
    IF dry_run \/ zip.fault = "index" THEN {}
    ELSE {k \in DOMAIN artwork_map :
            /\ "_marquee" \in Range(k)
            /\ zip.fault = "extract" => k[1] \in zip.done}

\* get_media_from_extras (lines 157-183)
GetMedia ==
    /\ pc = "merged"
    /\ LET smap == IF IsNone(extras.snap) THEN EmptyDict
                   ELSE DirectMap(Val(extras.snap))
           fmap == IF IsNone(extras.flyers) THEN EmptyDict
                   ELSE DirectMap(Val(extras.flyers))
           amap == IF IsNone(extras.artwork) THEN EmptyDict
                   ELSE ArtworkMap(Val(extras.artwork))
           scopied == IF IsNone(extras.snap) THEN {}
                      ELSE CopiedNames(Val(extras.snap), smap)
           fcopied == IF IsNone(extras.flyers) THEN {}
                      ELSE CopiedNames(Val(extras.flyers), fmap)
           mcopied == IF IsNone(extras.artwork) THEN {}
                      ELSE CopiedMarquees(Val(extras.artwork), amap)
       IN /\ snap_map' = smap
          /\ flyer_map' = fmap
          /\ marquee_map' = [n \in {k[1] : k \in mcopied} |->
                               amap[<<n, "_marquee">>]]
          /\ media_files' = media_files
                 \cup {<<"screenshots", n>> : n \in scopied}
                 \cup {<<"covers", n>> : n \in fcopied}
                 \cup {<<"marquees", k[1]>> : k \in mcopied}
    /\ pc' = "media"
    /\ UNCHANGED <<config, zip_idx, rom_dat_path, chd_dat_path, artwork_dat_path,
                   rom_games, chd_games, artwork_games, merged_games,
                   processed_games, gamelist_root, dirs, temp_files, gamelist_file,
                   fatal, exit_status, history>>

\* generate_gamelist (lines 391-433); opening gamelist.xml for writing may
\* raise, which run() catches at line 514
GenerateGamelist ==
    /\ pc = "media"
    /\ gamelist_root' = GamelistRoot(merged_games, snap_map, flyer_map, marquee_map,
                                     gamelist_file, no_merge)
    /\ processed_games' = DOMAIN merged_games
    /\ \/ /\ dry_run
          /\ UNCHANGED <<gamelist_file, fatal>>
       \/ /\ ~dry_run
          /\ gamelist_file' = XmlFile(Serialize(gamelist_root'))
          /\ UNCHANGED fatal
       \/ /\ ~dry_run
          /\ fatal' = TRUE
          /\ UNCHANGED gamelist_file
    /\ pc' = "cleanup"
    /\ UNCHANGED <<config, zip_idx, rom_dat_path, chd_dat_path, artwork_dat_path,
                   rom_games, chd_games, artwork_games, merged_games, snap_map,
                   flyer_map, marquee_map, dirs, temp_files, media_files,
                   exit_status, history>>

\* cleanup called after the try statement of run() instead of from its
\* finally clause: sys.exit(1) of line 516 then leaves before it
CleanupOutsideFinally ==
    /\ pc = "cleanup"
    /\ IF "extract_temp" \in dirs /\ ~dry_run /\ ~fatal
       THEN /\ dirs' = dirs \ {"extract_temp"}
            /\ temp_files' = {}
       ELSE UNCHANGED <<dirs, temp_files>>
    /\ pc' = "exit"
    /\ UNCHANGED <<config, locals, media_files, gamelist_file, fatal,
                   exit_status, history>>

\* cleanup (lines 458-462), called from the finally clause of run()
Cleanup ==
    /\ pc = "cleanup"
    /\ IF "extract_temp" \in dirs /\ ~dry_run
       THEN /\ dirs' = dirs \ {"extract_temp"}
            /\ temp_files' = {}
       ELSE UNCHANGED <<dirs, temp_files>>
    /\ pc' = "exit"
    /\ UNCHANGED <<config, locals, media_files, gamelist_file, fatal,
                   exit_status, history>>

\* the process ends: sys.exit(1) of line 516, or main() returning
Exit ==
    /\ pc = "exit"
    /\ exit_status' = IF fatal THEN 1 ELSE 0
    /\ pc' = "done"
    /\ UNCHANGED <<config, locals, fs, fatal, history>>

\* the program is invoked again with the same arguments and archives
Rerun ==
    /\ pc = "done"
    /\ runs < MaxRuns
    /\ runs' = runs + 1
    /\ prev_output' = gamelist_file
    /\ prev_exit' = exit_status
    /\ pc' = "start"
    /\ zip_idx' = 1
    /\ rom_dat_path' = None /\ chd_dat_path' = None /\ artwork_dat_path' = None
    /\ rom_games' = EmptyDict /\ chd_games' = EmptyDict
    /\ artwork_games' = EmptyDict /\ merged_games' = EmptyDict
    /\ snap_map' = EmptyDict /\ flyer_map' = EmptyDict /\ marquee_map' = EmptyDict
    /\ processed_games' = {}
    /\ gamelist_root' = <<>>
    /\ fatal' = FALSE
    /\ exit_status' = -1
    /\ UNCHANGED <<config, fs>>

Next ==
    \/ Construct
    \/ ExtractXml
    \/ AbortNoRom
    \/ ParseDats
    \/ MergeMetadata
    \/ GetMedia
    \/ GenerateGamelist
    \/ Cleanup
    \/ Exit
    \/ Rerun

Spec == Init /\ [][Next]_vars


\* =====================================================================
\* merge_metadata as a function of three parsed catalogs
\* =====================================================================
\* <machine> elements whose values name their source, so that a merged value
\* tells where it came from
M1(src, n) ==
    Elem("machine", Some(n), Some(<<"desc", src>>), Some(<<"1", "9", "8", "5">>),
         None, Some(<<"yes">>), Some(Some(<<"players", src>>)), None)
M2(src, n) ==
    Elem("machine", Some(n), None, None, Some(<<"manuf", src>>), None, Some(None),
         Some([status |-> None, emulation |-> None]))
M3(src, n) ==
    Elem("machine", Some(n), Some(<<"alt", src>>), Some(<<"2", "0", "0", "?">>),
         Some(<<"manuf", src>>), None, Some(Some(<<"players", src>>)),
         Some([status |-> Some(<<"status", src>>), emulation |-> Some(<<"emu", src>>)]))

\* the catalogs parse_dat_xml can return for a source
Catalogs(src) ==
    UNION {[S -> {"M1", "M2", "M3"}] : S \in SUBSET Ids}

CatalogGames(src, c) ==
    [n \in DOMAIN c |->
        GameData(CASE c[n] = "M1" -> M1(src, n)
                   [] c[n] = "M2" -> M2(src, n)
                   [] c[n] = "M3" -> M3(src, n))]

InitMerge ==
    /\ pc = "parsed"
    /\ no_merge = FALSE /\ dry_run = FALSE
    /\ dat_zips = <<>>
    /\ extras = [snap |-> None, flyers |-> None, artwork |-> None]
    /\ zip_idx = 1
    /\ rom_dat_path = None /\ chd_dat_path = None /\ artwork_dat_path = None
    /\ \E c \in Catalogs("rom") : rom_games = CatalogGames("rom", c)
    /\ \E c \in Catalogs("chd") : chd_games = CatalogGames("chd", c)
    /\ \E c \in Catalogs("art") : artwork_games = CatalogGames("art", c)
    /\ merged_games = EmptyDict
    /\ snap_map = EmptyDict /\ flyer_map = EmptyDict /\ marquee_map = EmptyDict
    /\ processed_games = {}
    /\ gamelist_root = <<>>
    /\ dirs = {"extract_temp"} \cup MediaDirs /\ temp_files = {} /\ media_files = {}
    /\ gamelist_file = NoFile
    /\ fatal = FALSE /\ exit_status = -1
    /\ runs = 1 /\ prev_output = NoFile /\ prev_exit = -1

NextMerge == MergeMetadata

SpecMerge == InitMerge /\ [][NextMerge]_vars

\* C2: for an identifier in both the ROM and the CHD mapping and every field,
\* if the ROM and CHD values are both truthy and differ the merged record
\* holds the ROM value, and if the ROM value is falsy and the CHD value is
\* truthy it holds the CHD value.
C2_RomValueWins ==
    pc = "merged" =>
        \A n \in (DOMAIN rom_games) \cap (DOMAIN chd_games) :
            \A k \in (DOMAIN rom_games[n]) \cap (DOMAIN chd_games[n]) :
                LET r == rom_games[n][k]
                    c == chd_games[n][k]
                IN /\ (Truthy(k, r) /\ Truthy(k, c) /\ r # c)
                        => merged_games[n][k] = r
                   /\ (~Truthy(k, r) /\ Truthy(k, c))
                        => merged_games[n][k] = c

\* C3: for an identifier present after the ROM and CHD steps, an artwork
\* record changes no field key the merged record already has (be its value
\* empty or false) and adds exactly the keys that are absent from it and
\* truthy in the artwork record; an artwork identifier not yet present is
\* inserted as a whole record.
C3_ArtworkAugments ==
    pc = "merged" =>
        LET m == MergeRomChd(rom_games, chd_games)
        IN \A n \in DOMAIN artwork_games :
              LET a == artwork_games[n]
              IN IF n \in DOMAIN m
                 THEN /\ \A k \in DOMAIN m[n] :
                            /\ k \in DOMAIN merged_games[n]
                            /\ merged_games[n][k] = m[n][k]
                      /\ (DOMAIN merged_games[n]) \ (DOMAIN m[n]) =
                            {k \in (DOMAIN a) \ (DOMAIN m[n]) : Truthy(k, a[k])}
                      /\ \A k \in (DOMAIN merged_games[n]) \ (DOMAIN m[n]) :
                            merged_games[n][k] = a[k]
                 ELSE merged_games[n] = a

\* an identifier known to the ROM catalog whose driver_status is present but
\* empty while the artwork record offers a truthy one and also a players
\* value the merged record lacks, next to an artwork-only identifier
C3_Witness ==
    /\ pc = "merged"
    /\ \E n \in (DOMAIN rom_games) \cap (DOMAIN artwork_games) :
          /\ "driver_status" \in DOMAIN rom_games[n]
          /\ rom_games[n]["driver_status"] = <<>>
          /\ "driver_status" \in DOMAIN artwork_games[n]
          /\ artwork_games[n]["driver_status"] # <<>>
          /\ merged_games[n]["driver_status"] = <<>>
    /\ \E n \in (DOMAIN rom_games) \cap (DOMAIN artwork_games) :
          /\ "players" \notin DOMAIN MergeRomChd(rom_games, chd_games)[n]
          /\ "players" \in DOMAIN merged_games[n]
    /\ \E n \in DOMAIN artwork_games :
          n \notin (DOMAIN rom_games) \cup (DOMAIN chd_games)


\* =====================================================================
\* properties of the whole run (specification Spec)
\* =====================================================================
\* the step in which generate_gamelist runs
GenerateStep == pc = "media" /\ pc' = "cleanup"

\* a game element whose first path child has text, and that text
HasPath(g) ==
    /\ ~IsNone(Find(g, "path"))
    /\ ~IsNone(Val(Find(g, "path")).text)
    /\ Val(Val(Find(g, "path")).text) # <<>>
PathOf(g) == Val(Val(Find(g, "path")).text)

\* the positions of the records of a gamelist whose path has stem n
WithStem(games, n) ==
    {j \in 1..Len(games) : HasPath(games[j]) /\ Stem(PathOf(games[j])) = n}

StemsOf(games) ==
    {Stem(PathOf(games[j])) : j \in {i \in 1..Len(games) : HasPath(games[i])}}

Max(S) == CHOOSE x \in S : \A y \in S : y <= x

\* C1: with merge enabled, for every identifier in both the unified set and
\* the existing gamelist, every field of the existing record (hand-added ones
\* such as hidden included) is in the generated record with the same value.
C1_ExistingFieldsKept ==
    [][(GenerateStep /\ ~no_merge) =>
        LET keys == SortedKeys(DOMAIN merged_games)
        IN \A i \in 1..Len(keys) :
              WithStem(gamelist_file.games, keys[i]) # {} =>
                 LET old == gamelist_file.games[
                                Max(WithStem(gamelist_file.games, keys[i]))]
                     new == gamelist_root'[i]
                 IN \A j \in 1..Len(old) :
                       \E k \in 1..Len(new) :
                          new[k].tag = old[j].tag /\ new[k].text = old[j].text]_vars

\* C4 as stated: every record of the existing gamelist whose identifier is
\* not in the unified set is in the generated gamelist when merge is
\* enabled, and is not in it when merge is disabled.
C4_EveryOrphanRecordKept ==
    [][GenerateStep =>
        \A j \in 1..Len(gamelist_file.games) :
           LET g == gamelist_file.games[j]
           IN (HasPath(g) /\ Stem(PathOf(g)) \notin DOMAIN merged_games) =>
                 IF no_merge
                 THEN \A i \in 1..Len(gamelist_root') : gamelist_root'[i] # g
                 ELSE \E i \in 1..Len(gamelist_root') : gamelist_root'[i] = g]_vars

\* C4 amended: for every identifier of the existing gamelist that is not in
\* the unified set, the generated gamelist holds, when merge is enabled,
\* exactly one record with that identifier, equal in all its fields to the
\* last existing record with it; when merge is disabled it holds none.
C4_LastOrphanRecordKept ==
    [][GenerateStep =>
        \A n \in StemsOf(gamelist_file.games) \ DOMAIN merged_games :
           IF no_merge
           THEN WithStem(gamelist_root', n) = {}
           ELSE /\ Cardinality(WithStem(gamelist_root', n)) = 1
                /\ \A i \in WithStem(gamelist_root', n) :
                      gamelist_root'[i] =
                         gamelist_file.games[Max(WithStem(gamelist_file.games, n))]]_vars

\* merge enabled, two existing records share an identifier that no catalog
\* knows, and the generated gamelist (next to generated records) holds the
\* later one
C4_Witness ==
    /\ pc = "cleanup" /\ dry_run /\ ~no_merge
    /\ DOMAIN merged_games # {}
    /\ Len(gamelist_root) > Cardinality(DOMAIN merged_games)
    /\ \E n \in StemsOf(gamelist_file.games) \ DOMAIN merged_games :
          /\ Cardinality(WithStem(gamelist_file.games, n)) >= 2
          /\ gamelist_file.games[1] # gamelist_file.games[2]
          /\ \E i \in 1..Len(gamelist_root) :
                gamelist_root[i] =
                   gamelist_file.games[Max(WithStem(gamelist_file.games, n))]

NoDuplicateIds(games) ==
    /\ \A j \in 1..Len(games) : HasPath(games[j])
    /\ \A n \in StemsOf(games) : Cardinality(WithStem(games, n)) = 1

\* an invocation that wrote gamelist.xml, following one that did
WroteAgain ==
    /\ pc = "done" /\ runs >= 2
    /\ ~no_merge /\ ~dry_run
    /\ ~IsNone(rom_dat_path)
    /\ exit_status = 0 /\ prev_exit = 0

\* C5: with merge enabled, a second run over the same catalogs and media,
\* reading the first run's gamelist.xml, writes a gamelist.xml equal to it
\* (same records, same order, same fields), in which no identifier occurs
\* more than once.
C5_Idempotent ==
    WroteAgain =>
        /\ gamelist_file = prev_output
        /\ NoDuplicateIds(gamelist_file.games)

\* a second run that wrote generated records followed by preserved ones
C5_Witness ==
    /\ WroteAgain
    /\ gamelist_file = prev_output
    /\ processed_games # {}
    /\ Len(gamelist_file.games) > Cardinality(processed_games)
    /\ \E i \in 1..Len(gamelist_file.games) :
          {"rating", "hidden"} \subseteq Tags(gamelist_file.games[i])

\* C6: when no ROM catalog is found, run stops before parsing, media
\* extraction and gamelist writing, and the process ends with a non-zero
\* exit status.
C6_AbortExitsNonZero ==
    (pc = "done" /\ IsNone(rom_dat_path)) =>
        /\ merged_games = EmptyDict
        /\ snap_map = EmptyDict /\ flyer_map = EmptyDict /\ marquee_map = EmptyDict
        /\ gamelist_root = <<>>
        /\ runs >= 2 => gamelist_file = prev_output
        /\ exit_status # 0

\* C7: with dry-run set, no step from construction to the end of run
\* changes the filesystem.
C7_DryRunWritesNothing ==
    [][dry_run => UNCHANGED fs]_vars

\* C8: in a record generated without an existing record, a field with no
\* derivable value has no element: video and rating always, image and
\* thumbnail without a screenshot, marquee without a marquee, releasedate
\* without a usable year, players without a player count.
C8_UnderivableFieldsOmitted ==
    (pc = "cleanup" /\ no_merge) =>
        LET keys == SortedKeys(DOMAIN merged_games)
        IN \A i \in 1..Len(gamelist_root) :
              LET rec == gamelist_root[i]
                  n == keys[i]
              IN /\ "video" \notin Tags(rec)
                 /\ "rating" \notin Tags(rec)
                 /\ n \notin DOMAIN snap_map =>
                       ("image" \notin Tags(rec) /\ "thumbnail" \notin Tags(rec))
                 /\ n \notin DOMAIN marquee_map => "marquee" \notin Tags(rec)
                 /\ IsNone(ReleaseDate(merged_games[n])) =>
                       "releasedate" \notin Tags(rec)
                 /\ "players" \notin DOMAIN merged_games[n] =>
                       "players" \notin Tags(rec)


\* =====================================================================
\* create_gamelist_entry as a function of one unified record
\* =====================================================================
Years ==
    SeqsUpTo({"1", "?"}, MaxYearLen)
    \cup {<<"1", "9", "8", "5">>, <<"1", "9", "8", "?">>, <<"2", "0", "0", "?">>,
          <<"1", "9", "8", "5", "0">>, <<"1", "9", "8", "5", "?">>,
          <<"?", "1", "9", "8", "5">>}

EntryElems ==
    {Elem("machine", Some("a"), Some(<<"Pac-Man">>), y, Some(<<"Namco">>), None, i, d) :
        y \in {None} \cup {Some(yr) : yr \in Years},
        i \in {None, Some(Some(<<"2">>))},
        d \in {None, Driver(None), Driver(Some(<<"good">>)),
               Driver(Some(<<"preliminary">>)), Driver(Some(<<"imperfect">>))}}

InitEntry ==
    /\ pc = "media"
    /\ no_merge \in BOOLEAN /\ dry_run \in BOOLEAN
    /\ dat_zips = <<>>
    /\ extras = [snap |-> None, flyers |-> None, artwork |-> None]
    /\ zip_idx = 1
    /\ rom_dat_path = None /\ chd_dat_path = None /\ artwork_dat_path = None
    /\ \E e \in EntryElems :
          /\ rom_games = [n \in {"a"} |-> GameData(e)]
          /\ merged_games = [n \in {"a"} |-> GameData(e)]
    /\ chd_games = EmptyDict /\ artwork_games = EmptyDict
    /\ snap_map \in {EmptyDict, [n \in {"a"} |-> <<"a", ".png">>]}
    /\ flyer_map = EmptyDict
    /\ marquee_map \in {EmptyDict, [n \in {"a"} |-> <<"a", "_marquee", ".png">>]}
    /\ processed_games = {}
    /\ gamelist_root = <<>>
    /\ dirs = {"extract_temp"} \cup MediaDirs /\ temp_files = {} /\ media_files = {}
    /\ gamelist_file \in {NoFile, XmlFile(<<EditedGame(<<"./", "a", ".zip">>)>>)}
    /\ fatal = FALSE /\ exit_status = -1
    /\ runs = 1 /\ prev_output = NoFile /\ prev_exit = -1

NextEntry == GenerateGamelist

SpecEntry == InitEntry /\ [][NextEntry]_vars

\* the text of the first child with that tag, None when there is no child
TextOf(rec, tag) ==
    IF IsNone(Find(rec, tag)) THEN None ELSE Val(Find(rec, tag)).text

Leading4Digits(y) == Len(y) >= 4 /\ \A i \in 1..4 : y[i] \in Digits

\* a partial year such as "200?" or "198?"
PartialYear(y) ==
    Len(y) = 4 /\ y[4] = "?" /\ \A i \in 1..3 : y[i] \in Digits

\* C9: without an existing releasedate, a 4-digit year Y gives Y0101T000000;
\* any other year gives the release date of its leading 4-digit capture, so
\* that partial years such as "200?" and "198?" still yield a release date
\* ("198?" gives "19850101T000000"); a missing or non-matching year gives
\* none.
C9_ReleaseDateFromYear ==
    (pc = "cleanup" /\ no_merge) =>
        LET y == merged_games["a"]["year"]
            rd == TextOf(gamelist_root[1], "releasedate")
        IN /\ (Len(y) = 4 /\ IsDigit(y)) => rd = Some(y \o DateSuffix)
           /\ (Leading4Digits(y) /\ ~(Len(y) = 4 /\ IsDigit(y)))
                 => rd = Some(SubSeq(y, 1, 4) \o DateSuffix)
           /\ PartialYear(y) => ~IsNone(rd)
           /\ y = <<"1", "9", "8", "?">>
                 => rd = Some(<<"1", "9", "8", "5">> \o DateSuffix)
           /\ (~Leading4Digits(y) /\ ~PartialYear(y)) => IsNone(rd)

\* C10: a record generated from a unified record has a hidden field, with
\* value true, exactly when the driver status is "preliminary" or
\* "imperfect"; with any other status or no driver information it has no
\* hidden field, and hidden never has another value than true.
C10_HiddenIffNotWorking ==
    pc = "cleanup" =>
        LET keys == SortedKeys(DOMAIN merged_games)
        IN \A i \in 1..Len(keys) :
              LET rec == gamelist_root[i]
                  md == merged_games[keys[i]]
                  hidden == {k \in 1..Len(rec) : rec[k].tag = "hidden"}
              IN /\ (hidden # {}) <=>
                       /\ "driver_status" \in DOMAIN md
                       /\ md["driver_status"] \in {<<"preliminary">>, <<"imperfect">>}
                 /\ \A k \in hidden : rec[k].text = Some(<<"true">>)

\* an imperfect driver with hidden = true generated over an existing record
C10_Witness ==
    /\ pc = "cleanup" /\ ~no_merge
    /\ gamelist_file # NoFile
    /\ "a" \in DOMAIN merged_games
    /\ "driver_status" \in DOMAIN merged_games["a"]
    /\ merged_games["a"]["driver_status"] = <<"imperfect">>
    /\ TextOf(gamelist_root[1], "hidden") = Some(<<"true">>)


\* =====================================================================
\* the archive locator loop of run() over listings with several archives
\* of one category
\* =====================================================================
\* the archives the glob of lines 473-475 may list: with and without an
\* .xml member, of every category, and one whose name matches two categories
LocateZips ==
    {Zip({"rom"}, <<RomDocOf(Ids, FALSE)>>),
     Zip({"rom"}, <<>>),
     Zip({"rom", "chd"}, <<RomDocOf({"a"}, TRUE)>>),
     Zip({"chd"}, <<ChdDoc>>),
     Zip({"chd"}, <<>>),
     Zip({"artwork"}, <<ArtDoc>>),
     Zip({}, <<ArtDoc>>)}

\* run() entered after __init__: the folders exist, nothing is located yet
InitLocate ==
    /\ pc = "locate"
    /\ no_merge = FALSE /\ dry_run \in BOOLEAN
    /\ dat_zips \in SeqsUpTo(LocateZips, MaxZips)
    /\ extras = [snap |-> None, flyers |-> None, artwork |-> None]
    /\ FreshLocals
    /\ dirs = {"extract_temp"} \cup MediaDirs
    /\ temp_files = {} /\ media_files = {}
    /\ gamelist_file = NoFile
    /\ fatal = FALSE /\ exit_status = -1
    /\ runs = 1 /\ prev_output = NoFile /\ prev_exit = -1

NextLocate ==
    \/ ExtractXml
    \/ AbortNoRom
    \/ ParseDats

SpecLocate == InitLocate /\ [][NextLocate]_vars

\* one iteration of the locator loop
LocateStep == pc = "locate" /\ pc' = "locate"

\* C11: in the locator loop, once a category (rom, chd, artwork) has a
\* selected catalog, no later archive of the listing replaces or erases it:
\* the selection stays the one of the first archive that gave one.
C11_FirstMatchKept ==
    [][LocateStep =>
        /\ (~IsNone(rom_dat_path) => rom_dat_path' = rom_dat_path)
        /\ (~IsNone(chd_dat_path) => chd_dat_path' = chd_dat_path)
        /\ (~IsNone(artwork_dat_path) => artwork_dat_path' = artwork_dat_path)]_vars



\* =====================================================================
\* get_media_from_extras and generate_gamelist over media archives whose
\* processing raises
\* =====================================================================
SnapEntries == {<<"a", ".png">>, <<"b", ".png">>}
ArtworkEntries ==
    {<<"a", "_marquee", ".png">>, <<"b", "_marquee", ".png">>,
     <<"b", "_flyer", ".png">>}

\* an archive that is absent, sound, unreadable, or fails at its first or
\* at a later member
MediaZips(entries) ==
    {None, Some(MediaZip(entries)),
     Some(FaultyZip(entries, "index", {})),
     Some(FaultyZip(entries, "extract", {})),
     Some(FaultyZip(entries, "extract", {"a"}))}

\* run() after merge_metadata (line 501) of one ROM catalog, no gamelist.xml
InitMedia ==
    /\ pc = "merged"
    /\ no_merge = FALSE /\ dry_run \in BOOLEAN
    /\ \E S \in SUBSET Ids :
          /\ dat_zips = <<Zip({"rom"}, <<RomDocOf(S, FALSE)>>)>>
          /\ rom_games = parse_dat_xml(RomDocOf(S, FALSE))
    /\ extras \in [snap : MediaZips(SnapEntries), flyers : MediaZips(SnapEntries),
                   artwork : MediaZips(ArtworkEntries)]
    /\ zip_idx = 2
    /\ rom_dat_path = Some(1) /\ chd_dat_path = None /\ artwork_dat_path = None
    /\ chd_games = EmptyDict /\ artwork_games = EmptyDict
    /\ merged_games = merge_metadata(rom_games, chd_games, artwork_games)
    /\ snap_map = EmptyDict /\ flyer_map = EmptyDict /\ marquee_map = EmptyDict
    /\ processed_games = {}
    /\ gamelist_root = <<>>
    /\ dirs = {"extract_temp"} \cup MediaDirs
    /\ temp_files = {1} /\ media_files = {}
    /\ gamelist_file = NoFile
    /\ fatal = FALSE /\ exit_status = -1
    /\ runs = 1 /\ prev_output = NoFile /\ prev_exit = -1

NextMedia ==
    \/ GetMedia
    \/ GenerateGamelist

SpecMedia == InitMedia /\ [][NextMedia]_vars

\* extract_media_from_zip reached its except clause (line 152)
IndexRaised(zip) == ~IsNone(zip) /\ Val(zip).fault = "index"

\* _extract_media_files / _extract_artwork_media reached its except clause
\* (lines 205, 228): a member that the loop extracts is not among those done
ExtractRaised(zip, names) ==
    /\ ~IsNone(zip) /\ Val(zip).fault = "extract"
    /\ ~dry_run
    /\ \E n \in names : n \notin Val(zip).done

MarqueeNames(zip) == {k[1] : k \in {j \in DOMAIN ArtworkMap(zip) : Len(j) = 2}}

Records == {gamelist_root[i] : i \in 1..Len(gamelist_root)}

\* C12: when processing snap.zip, flyers.zip or artwork.zip raised, while
\* indexing or while extracting/copying, the run still reaches the gamelist
\* and that archive's media index is empty: no record has an image or
\* thumbnail (snap.zip) or a marquee (artwork.zip) reference.
C12_FaultyArchiveGivesNothing ==
    pc = "cleanup" =>
        /\ (IndexRaised(extras.snap)
            \/ ExtractRaised(extras.snap, {f[1] : f \in SnapEntries}))
           => /\ snap_map = EmptyDict
              /\ \A r \in Records :
                    IsNone(TextOf(r, "image")) /\ IsNone(TextOf(r, "thumbnail"))
        /\ (IndexRaised(extras.flyers)
            \/ ExtractRaised(extras.flyers, {f[1] : f \in SnapEntries}))
           => flyer_map = EmptyDict
        /\ (IndexRaised(extras.artwork)
            \/ ExtractRaised(extras.artwork, MarqueeNames(Val(extras.artwork))))
           => /\ marquee_map = EmptyDict
              /\ \A r \in Records : IsNone(TextOf(r, "marquee"))



\* =====================================================================
\* the end of run(): cleanup and exit
\* =====================================================================
\* C13: with dry-run off, whichever way run() ended (conversion done, no ROM
\* catalog, exception caught at line 514), the process is past run() only
\* after cleanup, and the scratch directory and its files are then gone; the
\* exit status is set only after cleanup, and is 1 after an exception.
C13_CleanupBeforeEnd ==
    /\ (pc \in {"exit", "done"} /\ ~dry_run)
       => ("extract_temp" \notin dirs /\ temp_files = {})
    /\ exit_status # -1 => pc = "done"
    /\ (pc = "done" /\ fatal) => exit_status = 1

\* a second run that extracted a ROM catalog, failed on writing and exited
\* with status 1 with the scratch directory removed, after a first run that
\* succeeded
C13_Witness ==
    /\ pc = "done" /\ ~dry_run
    /\ runs = 2 /\ prev_exit = 0
    /\ ~IsNone(rom_dat_path)
    /\ fatal /\ exit_status = 1
    /\ "extract_temp" \notin dirs /\ temp_files = {}


====
